---- MODULE Spec2Model ----
(***************************************************************************)
(* Model of scripts/upload-sandbox-image.py: hash the built qcow2 images,  *)
(* upload each with one multipart POST, print the CDN URLs.                *)
(*                                                                         *)
(* The process is sequential; pc is the position of main.  The file        *)
(* system, the server and the network are the environment: the server's    *)
(* answer is chosen in the Upload action, and another actor may rewrite an *)
(* image file between any two steps of the process (Tamper).               *)
(*                                                                         *)
(* hashlib.sha256 is modelled as an ideal hash: the accumulator holds the   *)
(* bytes fed so far and the digest of two byte strings is equal exactly    *)
(* when the strings are equal.                                             *)
(***************************************************************************)
EXTENDS Integers, Sequences, FiniteSets, TLC

VARIABLES
    LUNA_NOS_URL,       \* module constant, line 20 ("" when the setting is unset)
    LUNA_NOS_PRODUCT,   \* module constant, line 21
    argArch,            \* args.arch
    dirExists,          \* os.path.isdir(input_dir)
    files,              \* arch -> content of linux-<arch>.qcow2, or NoFile
    pc,                 \* position of the process
    idx,                \* index of the loop of line 117 in archs
    results,            \* the result mapping of line 110
    file_hash,          \* local of main, line 123
    url,                \* local of main, line 127
    h,                  \* sha256_file: bytes fed to the accumulator
    fpos,               \* sha256_file: offset of the open file
    fed,                \* sha256_file: the chunks fed, in order
    reads,              \* sha256_file: number of f.read calls
    resp,               \* the outcome of the last POST
    sent,               \* arch -> the bytes read and sent by the POST, or NoFile
    io,                 \* counts of the I/O calls made
    out,                \* what was printed
    exitStatus,         \* exit status of the process, -1 while it runs
    fault               \* the unhandled exception that ended the process, or "none"

vars == <<LUNA_NOS_URL, LUNA_NOS_PRODUCT, argArch, dirExists, files, pc, idx,
          results, file_hash, url, h, fpos, fed, reads, resp, sent, io, out,
          exitStatus, fault>>

----------------------------------------------------------------------------
(* Bounds of the model *)

MaxLen == 1         \* image files of the main run hold 0..MaxLen bytes
MaxChunks == 2      \* the hashing runs read up to MaxChunks full chunks (+1 byte)
MaxPattern == 3     \* fill patterns of the files of the hashing runs

(* Program constants *)

LUNA_NOS_SUCCESS_CODE == 0
ChunkSize == 8192

Arches == {"amd64", "arm64"}
ArchChoices == {"amd64", "arm64", "all"}

NoFile == <<-1>>
None == [kind |-> "null"]

Min(a, b) == IF a < b THEN a ELSE b

----------------------------------------------------------------------------
(* JSON values, as response.json() returns them *)

JNum(n) == [kind |-> "num", n |-> n]
JStr(s) == [kind |-> "str", s |-> s]
JList == [kind |-> "list"]
Missing == [kind |-> "missing"]

JObj(c, d, m) ==
    LET keys == (IF c = Missing THEN {} ELSE {"code"})
                \cup (IF d = Missing THEN {} ELSE {"data"})
                \cup (IF m = Missing THEN {} ELSE {"msg"})
    IN  [kind |-> "obj",
         fields |-> [k \in keys |-> IF k = "code" THEN c
                                    ELSE IF k = "data" THEN d ELSE m]]

JData(u) ==
    [kind |-> "obj",
     fields |-> [k \in (IF u = Missing THEN {} ELSE {"url"}) |-> u]]

EmptyDict == [kind |-> "obj", fields |-> [k \in {} |-> None]]

GoodUrl == JStr("https://cdn.example/x")

UrlValues == {Missing, JStr(""), GoodUrl}
DataValues == {Missing, None, JList} \cup {JData(u) : u \in UrlValues}
CodeValues == {Missing, JNum(0), JNum(1)}
MsgValues == {Missing, JStr("quota exceeded")}

JsonBodies ==
    {None, JList}
    \cup {JObj(c, d, m) : c \in CodeValues, d \in DataValues, m \in MsgValues}

NotJson == [kind |-> "notjson"]
Bodies == JsonBodies \cup {NotJson}

(* Outcomes of requests.post: an exception of the transport, or a response *)
Transport(e) == [kind |-> "transport", exc |-> e, status |-> 0, body |-> NotJson]
Http(s, b) == [kind |-> "http", exc |-> "none", status |-> s, body |-> b]

Responses ==
    {Transport(e) : e \in {"ConnectionError", "Timeout"}}
    \cup {Http(200, b) : b \in Bodies}
    \cup {Http(s, b) : s \in {304, 404, 500},
                       b \in {NotJson, JObj(JNum(0), JData(GoodUrl), Missing)}}

Is2xx(r) == r.kind = "http" /\ r.status >= 200 /\ r.status < 300

----------------------------------------------------------------------------
(* Python semantics used by the code *)

\* hasattr(v, "get"): only a dict has .get
HasGet(v) == v.kind = "obj"

\* dict.get(key, default)
Get(o, k, default) == IF k \in DOMAIN o.fields THEN o.fields[k] ELSE default

\* v == n for an int n
PyEq(v, n) == v.kind = "num" /\ v.n = n

\* bool(v)
Truthy(v) ==
    CASE v.kind = "null" -> FALSE
      [] v.kind = "num" -> v.n # 0
      [] v.kind = "str" -> v.s # ""
      [] v.kind = "list" -> TRUE
      [] v.kind = "obj" -> DOMAIN v.fields # {}
      [] OTHER -> FALSE

\* Response.raise_for_status raises HTTPError for 4xx and 5xx
raise_for_status(r) == r.status >= 400 /\ r.status < 600

\* hashlib: hexdigest of the bytes fed
Sha256Hex(bytes) == <<"sha256", bytes>>

----------------------------------------------------------------------------
(* What the process prints *)

Msg(tag, arch, detail) == [tag |-> tag, arch |-> arch, detail |-> detail]
CodeMsg(c, m) == [kind |-> "codemsg", code |-> c, msg |-> m]

----------------------------------------------------------------------------
(* upload_file, lines 41-78, as a function of the outcome of the POST:      *)
(* raised is the exception that leaves upload_file ("none" when it          *)
(* returns), ret the value returned, printed the lines it prints.          *)

Returned(v, lines) == [raised |-> "none", ret |-> v, printed |-> lines]
Raised(e) == [raised |-> e, ret |-> None, printed |-> {}]

\* lines 67-78: the body of a response that passed raise_for_status
parse_response(r) ==
    IF r.body.kind = "notjson"
    THEN Raised("JSONDecodeError")                       \* line 67
    ELSE LET result == r.body IN
      IF ~HasGet(result)
      THEN Raised("AttributeError")                      \* line 68
      ELSE IF PyEq(Get(result, "code", None), LUNA_NOS_SUCCESS_CODE)
      THEN LET data == Get(result, "data", EmptyDict) IN
        IF ~HasGet(data)
        THEN Raised("AttributeError")                    \* line 69
        ELSE LET u == Get(data, "url", None) IN
          IF Truthy(u)
          THEN Returned(u, {[tag |-> "OK", detail |-> u]})
          ELSE Returned(None, {[tag |-> "ERROR: No URL in response",
                                detail |-> result]})
      ELSE Returned(None,
             {[tag |-> "ERROR: Upload failed (code)",
               detail |-> CodeMsg(Get(result, "code", None),
                                  Get(result, "msg", None))]})

\* an upload_file without the raise_for_status call of line 62
upload_file_unchecked(r) ==
    IF r.kind = "transport"
    THEN Returned(None, {[tag |-> "ERROR: Upload failed", detail |-> JStr(r.exc)]})
    ELSE parse_response(r)

upload_file(r) ==
    IF r.kind = "transport"
    THEN Returned(None, {[tag |-> "ERROR: Upload failed", detail |-> JStr(r.exc)]})
    ELSE IF raise_for_status(r)
    THEN Returned(None, {[tag |-> "ERROR: Upload failed", detail |-> JStr("HTTPError")]})
    ELSE parse_response(r)

----------------------------------------------------------------------------
(* main, lines 81-162 *)

\* line 109
archs == IF argArch = "all" THEN <<"amd64", "arm64">> ELSE <<argArch>>

arch == archs[idx]

Selected == {archs[i] : i \in 1..Len(archs)}

Bump(f, a) == [f EXCEPT ![a] = @ + 1]

Exit(status, exc) ==
    /\ pc' = "exited"
    /\ exitStatus' = status
    /\ fault' = exc

Running == exitStatus' = exitStatus /\ fault' = fault

\* a configuration check that needs both settings to be missing
CheckConfig_both ==
    /\ pc = "config"
    /\ IF LUNA_NOS_URL = "" /\ LUNA_NOS_PRODUCT = ""
       THEN /\ out' = out \cup {Msg("Error: Environment variables must be set", "", None)}
            /\ Exit(1, "none")
       ELSE /\ pc' = "dir"
            /\ out' = out
            /\ Running
    /\ UNCHANGED <<LUNA_NOS_URL, LUNA_NOS_PRODUCT, argArch, dirExists, files, idx,
                   results, file_hash, url, h, fpos, fed, reads, resp, sent, io>>

\* lines 96-101
CheckConfig ==
    /\ pc = "config"
    /\ IF LUNA_NOS_URL = "" \/ LUNA_NOS_PRODUCT = ""
       THEN /\ out' = out \cup {Msg("Error: Environment variables must be set", "", None)}
            /\ Exit(1, "none")
       ELSE /\ pc' = "dir"
            /\ out' = out
            /\ Running
    /\ UNCHANGED <<LUNA_NOS_URL, LUNA_NOS_PRODUCT, argArch, dirExists, files, idx,
                   results, file_hash, url, h, fpos, fed, reads, resp, sent, io>>

\* a directory check that reports the missing directory and goes on
CheckDir_goes_on ==
    /\ pc = "dir"
    /\ io' = [io EXCEPT !.isdir = @ + 1]
    /\ out' = IF ~dirExists
              THEN out \cup {Msg("Error: Input directory not found", "", None)}
              ELSE out
    /\ pc' = "loop"
    /\ idx' = 1
    /\ results' = [a \in {} |-> None]
    /\ Running
    /\ UNCHANGED <<LUNA_NOS_URL, LUNA_NOS_PRODUCT, argArch, dirExists, files,
                   file_hash, url, h, fpos, fed, reads, resp, sent>>

\* lines 103-115
CheckDir ==
    /\ pc = "dir"
    /\ io' = [io EXCEPT !.isdir = @ + 1]
    /\ IF ~dirExists
       THEN /\ out' = out \cup {Msg("Error: Input directory not found", "", None)}
            /\ Exit(1, "none")
            /\ UNCHANGED <<idx, results>>
       ELSE /\ pc' = "loop"
            /\ idx' = 1
            /\ results' = [a \in {} |-> None]
            /\ out' = out
            /\ Running
    /\ UNCHANGED <<LUNA_NOS_URL, LUNA_NOS_PRODUCT, argArch, dirExists, files,
                   file_hash, url, h, fpos, fed, reads, resp, sent>>

\* lines 117-121: the head of the loop and the probe of the image file
LoopNext ==
    /\ pc = "loop"
    /\ IF idx > Len(archs)
       THEN /\ pc' = "final"
            /\ UNCHANGED <<idx, io, out>>
       ELSE /\ io' = [io EXCEPT !.isfile = Bump(@, arch)]
            /\ IF files[arch] = NoFile
               THEN /\ out' = out \cup {Msg("Skipped", arch, None)}
                    /\ idx' = idx + 1
                    /\ pc' = "loop"
               ELSE /\ pc' = "hashOpen"
                    /\ UNCHANGED <<idx, out>>
    /\ Running
    /\ UNCHANGED <<LUNA_NOS_URL, LUNA_NOS_PRODUCT, argArch, dirExists, files,
                   results, file_hash, url, h, fpos, fed, reads, resp, sent>>

----------------------------------------------------------------------------
(* sha256_file, lines 29-38 *)

\* a read that loses the last byte of the file
ReadChunk_short(content, pos) ==
    SubSeq(content, pos + 1, Min(pos + ChunkSize, Len(content) - 1))

\* f.read(8192) at offset pos of a file holding content
ReadChunk(content, pos) ==
    SubSeq(content, pos + 1, Min(pos + ChunkSize, Len(content)))

\* lines 31-32
HashOpen ==
    /\ pc = "hashOpen"
    /\ h' = <<>>
    /\ fpos' = 0
    /\ fed' = <<>>
    /\ reads' = 0
    /\ io' = [io EXCEPT !.hash = Bump(@, arch)]
    /\ pc' = "hashRead"
    /\ Running
    /\ UNCHANGED <<LUNA_NOS_URL, LUNA_NOS_PRODUCT, argArch, dirExists, files, idx,
                   results, file_hash, url, resp, sent, out>>

\* lines 33-37: one turn of the loop
HashRead ==
    /\ pc = "hashRead"
    /\ LET chunk == ReadChunk(files[arch], fpos) IN
         /\ reads' = reads + 1
         /\ fpos' = fpos + Len(chunk)
         /\ IF chunk = <<>>
            THEN /\ pc' = "hashDigest"
                 /\ UNCHANGED <<h, fed>>
            ELSE /\ h' = h \o chunk
                 /\ fed' = Append(fed, chunk)
                 /\ pc' = "hashRead"
    /\ Running
    /\ UNCHANGED <<LUNA_NOS_URL, LUNA_NOS_PRODUCT, argArch, dirExists, files, idx,
                   results, file_hash, url, resp, sent, io, out>>

\* line 38: the digest is returned and the locals of sha256_file are gone;
\* lines 123-125 of main
HashDigest ==
    /\ pc = "hashDigest"
    /\ file_hash' = Sha256Hex(h)
    /\ h' = <<>>
    /\ fpos' = 0
    /\ fed' = <<>>
    /\ reads' = 0
    /\ out' = out \cup {Msg("File", arch, None),
                        Msg("SHA256", arch, [kind |-> "hex", hex |-> Sha256Hex(h)])}
    /\ pc' = "upload"
    /\ Running
    /\ UNCHANGED <<LUNA_NOS_URL, LUNA_NOS_PRODUCT, argArch, dirExists, files, idx,
                   results, url, resp, sent, io>>

----------------------------------------------------------------------------

\* line 127: the call of upload_file, lines 41-78
Upload ==
    /\ pc = "upload"
    /\ \E r \in Responses :
         LET o == upload_file(r) IN
           /\ resp' = r
           /\ sent' = [sent EXCEPT ![arch] = files[arch]]
           /\ io' = [io EXCEPT !.post = Bump(@, arch)]
           /\ out' = out \cup {Msg("Uploading", arch, None)}
                         \cup {Msg(l.tag, arch, l.detail) : l \in o.printed}
           /\ IF o.raised # "none"
              THEN /\ Exit(1, o.raised)
                   /\ url' = url
              ELSE /\ url' = o.ret
                   /\ pc' = "store"
                   /\ Running
    /\ UNCHANGED <<LUNA_NOS_URL, LUNA_NOS_PRODUCT, argArch, dirExists, files, idx,
                   results, file_hash, h, fpos, fed, reads>>

\* a loop that tries a failed architecture again
Store_retry ==
    /\ pc = "store"
    /\ IF Truthy(url)
       THEN /\ results' = [a \in DOMAIN results \cup {arch} |->
                             IF a = arch
                             THEN [url |-> url, sha256 |-> file_hash]
                             ELSE results[a]]
            /\ out' = out
            /\ idx' = idx + 1
       ELSE /\ out' = out \cup {Msg("FAILED to upload", arch, None)}
            /\ results' = results
            /\ idx' = idx
    /\ pc' = "loop"
    /\ Running
    /\ UNCHANGED <<LUNA_NOS_URL, LUNA_NOS_PRODUCT, argArch, dirExists, files,
                   file_hash, url, h, fpos, fed, reads, resp, sent, io>>

\* lines 128-133
Store ==
    /\ pc = "store"
    /\ IF Truthy(url)
       THEN /\ results' = [a \in DOMAIN results \cup {arch} |->
                             IF a = arch
                             THEN [url |-> url, sha256 |-> file_hash]
                             ELSE results[a]]
            /\ out' = out
       ELSE /\ out' = out \cup {Msg("FAILED to upload", arch, None)}
            /\ results' = results
    /\ idx' = idx + 1
    /\ pc' = "loop"
    /\ Running
    /\ UNCHANGED <<LUNA_NOS_URL, LUNA_NOS_PRODUCT, argArch, dirExists, files,
                   file_hash, url, h, fpos, fed, reads, resp, sent, io>>

\* lines 135-162
Final ==
    /\ pc = "final"
    /\ IF DOMAIN results = {}
       THEN /\ out' = out \cup {Msg("No images were uploaded successfully.", "", None)}
            /\ Exit(1, "none")
       ELSE /\ out' = out
                  \cup {Msg("Upload Summary", a, results[a].url) : a \in DOMAIN results}
                  \cup {Msg("Update the following", "", None)}
                  \cup {Msg("const DEFAULT_SANDBOX_IMAGE_URL", a, results[a].url) :
                          a \in DOMAIN results \cap {"arm64", "amd64"}}
                  \cup {Msg("Done!", "", None)}
            /\ Exit(0, "none")
    /\ UNCHANGED <<LUNA_NOS_URL, LUNA_NOS_PRODUCT, argArch, dirExists, files, idx,
                   results, file_hash, url, h, fpos, fed, reads, resp, sent, io>>

----------------------------------------------------------------------------
(* The environment *)

\* a file of len bytes, filled with pattern p
Fill(len, p) == [i \in 1..len |-> (i * (p + 1) + p) % 256]

Contents == {Fill(len, p) : len \in 0..MaxLen, p \in {0, 1}}

\* Another actor rewrites the image file the process is working on, at any
\* point between the probe of line 119 and the POST of line 61.  (A rewrite
\* of a file before its probe is a different initial content, and a rewrite
\* after its POST is never read.)
Tamper ==
    /\ pc \in {"hashOpen", "hashRead", "hashDigest", "upload"}
    /\ \E c \in Contents :
         /\ c # files[arch]
         /\ files' = [files EXCEPT ![arch] = c]
    /\ UNCHANGED <<LUNA_NOS_URL, LUNA_NOS_PRODUCT, argArch, dirExists, pc, idx,
                   results, file_hash, url, h, fpos, fed, reads, resp, sent, io, out,
                   exitStatus, fault>>

----------------------------------------------------------------------------
(* The run of main *)

NoResp == Transport("none")

InitLocals ==
    /\ idx = 1
    /\ results = [a \in {} |-> None]
    /\ file_hash = Sha256Hex(<<>>)
    /\ url = None
    /\ h = <<>>
    /\ fpos = 0
    /\ fed = <<>>
    /\ reads = 0
    /\ resp = NoResp
    /\ sent = [a \in Arches |-> NoFile]
    /\ io = [isdir |-> 0,
             isfile |-> [a \in Arches |-> 0],
             hash |-> [a \in Arches |-> 0],
             post |-> [a \in Arches |-> 0]]
    /\ out = {}
    /\ exitStatus = -1
    /\ fault = "none"

Init ==
    /\ LUNA_NOS_URL \in {"", "https://upload.example/upload"}
    /\ LUNA_NOS_PRODUCT \in {"", "product"}
    /\ argArch \in ArchChoices
    /\ dirExists \in BOOLEAN
    /\ files \in [Arches -> Contents \cup {NoFile}]
    /\ dirExists = FALSE => files = [a \in Arches |-> NoFile]
    /\ pc = "config"
    /\ InitLocals

Next ==
    \/ CheckConfig
    \/ CheckDir
    \/ LoopNext
    \/ HashOpen
    \/ HashRead
    \/ HashDigest
    \/ Upload
    \/ Store
    \/ Final
    \/ Tamper

Spec == Init /\ [][Next]_vars

----------------------------------------------------------------------------
(* The runs of sha256_file alone, on files of every length around the      *)
(* chunk size, with no other actor                                         *)

HashLens ==
    {n \in {k * ChunkSize + d : k \in 0..MaxChunks, d \in {-1, 0, 1}} : n >= 0}

HashInputs == {Fill(len, p) : len \in HashLens, p \in 0..MaxPattern}

HashInit ==
    /\ LUNA_NOS_URL = "https://upload.example/upload"
    /\ LUNA_NOS_PRODUCT = "product"
    /\ argArch = "amd64"
    /\ dirExists = TRUE
    /\ \E c \in HashInputs : files = [a \in Arches |-> IF a = "amd64" THEN c ELSE NoFile]
    /\ pc = "hashOpen"
    /\ InitLocals

HashNext == HashOpen \/ HashRead \/ HashDigest

SpecHash == HashInit /\ [][HashNext]_vars

----------------------------------------------------------------------------
(* Vocabulary of the properties *)

ConfigPresent == LUNA_NOS_URL # "" /\ LUNA_NOS_PRODUCT # ""

Printed(tag, a) == \E m \in out : m.tag = tag /\ m.arch = a

ErrorPrinted(a) ==
    \E m \in out : /\ m.arch = a
                   /\ m.tag \in {"ERROR: Upload failed", "ERROR: No URL in response",
                                 "ERROR: Upload failed (code)"}

Exited == pc = "exited"

Uploaded == resp # NoResp

NoIO ==
    /\ io.isdir = 0
    /\ \A a \in Arches : io.isfile[a] = 0 /\ io.hash[a] = 0 /\ io.post[a] = 0
    /\ \A a \in Arches : sent[a] = NoFile

\* the POST failed in the transport, or the status is one raise_for_status rejects
TransportFailure == resp.kind = "transport" /\ Uploaded
RejectedStatus == resp.kind = "http" /\ resp.status >= 400 /\ resp.status < 600
Non2xxStatus == resp.kind = "http" /\ ~Is2xx(resp)

RECURSIVE Concat(_)
Concat(chunks) ==
    IF chunks = <<>> THEN <<>> ELSE Head(chunks) \o Concat(Tail(chunks))

----------------------------------------------------------------------------
(* C1: with the configuration present and the input directory there, no    *)
(* response with a 2xx status ends the process with an unhandled fault:    *)
(* upload_file returns a URL or None, a failure is reported and counted,   *)
(* and a run that has ended has made its final pass/fail determination.    *)
C1_NoUnhandledFault ==
    (ConfigPresent /\ dirExists /\ Is2xx(resp)) =>
        /\ fault = "none"
        /\ (pc = "store" /\ url = None) => ErrorPrinted(arch)
        /\ Exited => \/ Printed("No images were uploaded successfully.", "")
                     \/ Printed("Done!", "")

(* C2: every record of the result mapping holds the SHA-256 of exactly the *)
(* bytes that were sent in the upload of its architecture, also when the   *)
(* file is rewritten between sha256_file and the read inside upload_file.  *)
C2_HashOfBytesSent ==
    \A a \in DOMAIN results : results[a].sha256 = Sha256Hex(sent[a])

(* C3: with the configuration present and the input directory there, the   *)
(* process exits 1 without the "Update the following" block exactly when   *)
(* no selected architecture produced a URL; when one did, it prints the    *)
(* block and exits 0.                                                      *)
C3_ExitStatus ==
    (ConfigPresent /\ dirExists /\ Exited) =>
        LET produced == \E a \in Selected : Printed("OK", a) IN
          /\ (exitStatus = 1 /\ ~Printed("Update the following", "")) <=> ~produced
          /\ produced => (Printed("Update the following", "") /\ exitStatus = 0)

(* C4: when either setting is unset or empty the process exits 1 and has   *)
(* made no file or network I/O: no probe of the directory or of an image,  *)
(* no hashing, no POST.                                                    *)
C4_NoConfigNoIO ==
    ~ConfigPresent =>
        /\ NoIO
        /\ pc \in {"config", "exited"}
        /\ Exited => (exitStatus = 1 /\ fault = "none")

C4_Witness ==
    /\ Exited
    /\ LUNA_NOS_URL = "" /\ LUNA_NOS_PRODUCT # ""
    /\ dirExists /\ files["amd64"] # NoFile
    /\ argArch = "all"

(* C5: when the configuration is present and the input directory is        *)
(* missing the process exits 1 before any image file is probed, hashed or  *)
(* uploaded.                                                               *)
C5_NoDirNoWork ==
    (ConfigPresent /\ ~dirExists) =>
        /\ \A a \in Arches : io.isfile[a] = 0 /\ io.hash[a] = 0 /\ io.post[a] = 0
        /\ pc \in {"config", "dir", "exited"}
        /\ Exited => (exitStatus = 1 /\ fault = "none")

C5_Witness ==
    ConfigPresent /\ ~dirExists /\ Exited /\ io.isdir = 1 /\ argArch = "all"

(* C6: a selected architecture whose image file is absent is reported as   *)
(* skipped and is neither hashed nor uploaded, and every other selected    *)
(* architecture is still processed: a skipped or failed amd64 does not     *)
(* keep arm64 from being hashed and uploaded; with --arch all and only the *)
(* amd64 image there, the run exits 0 when the amd64 upload succeeds.      *)
C6_SkipAndContinue ==
    (ConfigPresent /\ dirExists /\ Exited) =>
        /\ \A a \in Selected :
             IF files[a] = NoFile
             THEN Printed("Skipped", a) /\ io.hash[a] = 0 /\ io.post[a] = 0
             ELSE io.hash[a] = 1 /\ io.post[a] = 1
        /\ (/\ argArch = "all"
            /\ files["amd64"] # NoFile
            /\ files["arm64"] = NoFile
            /\ Printed("OK", "amd64")) => exitStatus = 0

(* C7: for a 2xx response whose body is a JSON object, upload_file returns *)
(* the URL at data.url exactly when code is the success code and a URL is  *)
(* there; in every other case it returns None and reports the error.       *)
ClaimedUrl(body) ==
    LET code == Get(body, "code", None)
        data == Get(body, "data", None)
    IN  IF /\ PyEq(code, LUNA_NOS_SUCCESS_CODE)
           /\ data.kind = "obj"
           /\ "url" \in DOMAIN data.fields
           /\ Truthy(data.fields["url"])
        THEN data.fields["url"]
        ELSE None

C7_UrlExactlyOnSuccess ==
    (Is2xx(resp) /\ resp.body.kind = "obj") =>
        /\ fault = "none"
        /\ url = ClaimedUrl(resp.body)
        /\ (pc = "store" /\ url = None) => ErrorPrinted(arch)

(* C8, as stated: after a transport failure or a response with a non-2xx   *)
(* status upload_file reports the error and returns None, no exception     *)
(* leaving it.  Stated here for the calls that return: the value returned  *)
(* after such an outcome is None.                                          *)
C8_Non2xxReturnsNone ==
    ((TransportFailure \/ Non2xxStatus) /\ fault = "none") => url = None

(* C8, amended: on a transport failure or a 4xx/5xx status upload_file     *)
(* reports the error and returns None with no exception; main then prints  *)
(* the failure, adds no record and goes on to the next architecture.       *)
C8_RejectedReturnsNone ==
    [][ /\ (io' # io /\ pc = "upload" /\ (TransportFailure \/ RejectedStatus)')
           => /\ fault' = "none" /\ url' = None /\ pc' = "store"
              /\ \E m \in out' : m.arch = arch /\ m.tag = "ERROR: Upload failed"
        /\ (pc = "store" /\ pc' # "store" /\ (TransportFailure \/ RejectedStatus))
           => /\ results' = results
              /\ arch \notin DOMAIN results'
              /\ \E m \in out' : m.arch = arch /\ m.tag = "FAILED to upload"
              /\ idx' = idx + 1 /\ pc' = "loop" /\ fault' = "none"
      ]_vars

C8_Witness ==
    /\ Exited /\ exitStatus = 0
    /\ argArch = "all"
    /\ \E m \in out : m.arch = "amd64" /\ m.tag = "ERROR: Upload failed"
    /\ Printed("FAILED to upload", "amd64")
    /\ "amd64" \notin DOMAIN results
    /\ "arm64" \in DOMAIN results

(* C9: no retry: at most one POST for each selected architecture whose     *)
(* image is there, none for any other, and an architecture whose upload    *)
(* failed is not tried again and is not in the result mapping.             *)
C9_NoRetry ==
    \A a \in Arches :
        /\ io.post[a] <= 1
        /\ io.hash[a] <= 1
        /\ io.post[a] = 1 => (a \in Selected /\ files[a] # NoFile)
        /\ Printed("FAILED to upload", a) => a \notin DOMAIN results
        /\ a \in DOMAIN results => Printed("OK", a)

C9_Witness ==
    /\ Exited
    /\ argArch = "all"
    /\ io.post["amd64"] = 1 /\ io.post["arm64"] = 1
    /\ \E m \in out : m.arch = "amd64" /\ m.tag = "ERROR: Upload failed (code)"
    /\ Printed("FAILED to upload", "amd64")
    /\ DOMAIN results = {"arm64"}

(* C10: sha256_file returns the digest of exactly the bytes of the file:   *)
(* the chunks fed, in the order read, make up the content, each full but   *)
(* the last, and the loop ends at the first empty read.                    *)
C10_DigestOfContent ==
    LET content == files[arch] IN
      /\ pc = "hashDigest" =>
           /\ Concat(fed) = content
           /\ h = content
           /\ \A i \in 1..Len(fed) :
                /\ fed[i] # <<>>
                /\ i < Len(fed) => Len(fed[i]) = ChunkSize
                /\ Len(fed[i]) <= ChunkSize
           /\ reads = Len(fed) + 1
      /\ pc = "upload" => file_hash = Sha256Hex(content)

C10_Witness ==
    /\ pc = "upload"
    /\ Len(files[arch]) > ChunkSize
    /\ Len(files[arch]) % ChunkSize # 0
    /\ file_hash = Sha256Hex(files[arch])

====
